---- MODULE Spec2Model ----
(***************************************************************************)
(* KeybindingsEditingService (keybindingEditing.ts): the queued            *)
(* read / validate / patch / write sequences of editKeybinding,            *)
(* removeKeybinding and resetKeybinding over the user keybindings          *)
(* document.                                                               *)
(*                                                                         *)
(* Text is modelled as a sequence of tokens.  A token is a record with a   *)
(* kind t; a JSON object {key, command, when} is one token of kind "obj".  *)
(* Offsets and lengths of edits are counted in tokens, 0-based as in the   *)
(* code.  Formatting whitespace inserted by the patch builder is left out; *)
(* line terminators and comments that the code itself writes are tokens.   *)
(***************************************************************************)
EXTENDS Integers, Sequences, FiniteSets, TLC

(***************************************************************************)
(* Tokens                                                                  *)
(***************************************************************************)

\* JavaScript undefined, for an optional string property
Undefined == "undefined"

\* JavaScript null, for getUserSettingsLabel(): string | null
Null == "null"

Tok(k) == [t |-> k, key |-> Undefined, command |-> Undefined, when |-> Undefined]

Obj(k, c, w) == [t |-> "obj", key |-> k, command |-> c, when |-> w]

\* whitespace and comments: skipped by the JSON scanner
Trivia == {"EOL", "//"}

\* top-level literals; "0", "false", "null" and "''" (the empty string) are falsy
Scalars == {"0", "1", "false", "true", "null", "''", "'s'"}

FalsyScalars == {"0", "false", "null", "''"}

IsValueTok(tok) == tok.t = "obj" \/ tok.t \in Scalars

\* !x for an optional string x
Falsy(s) == s = Undefined \/ s = ""

Min(a, b) == IF a < b THEN a ELSE b

(***************************************************************************)
(* JSON parser collaborator: parse(text) -> {value, errors}                *)
(***************************************************************************)

RECURSIVE SigFrom(_, _)
\* the 0-based offsets of the tokens of text from position i on that are not trivia
SigFrom(text, i) ==
    IF i > Len(text) THEN <<>>
    ELSE IF text[i].t \in Trivia THEN SigFrom(text, i + 1)
    ELSE <<i - 1>> \o SigFrom(text, i + 1)

RECURSIVE FirstClose(_, _, _)
\* the least j >= i with text[sig[j]+1] a closing bracket, Len(sig)+1 if none
FirstClose(text, sig, j) ==
    IF j > Len(sig) THEN j
    ELSE IF text[sig[j] + 1].t = "]" THEN j
    ELSE FirstClose(text, sig, j + 1)

\* elements and separators alternate: value (, value)*
WellFormedInner(text, inner) ==
    \/ Len(inner) = 0
    \/ /\ Len(inner) % 2 = 1
       /\ \A j \in 1..Len(inner) :
            IF j % 2 = 1 THEN IsValueTok(text[inner[j] + 1])
            ELSE text[inner[j] + 1].t = ","

ValueOffsets(text, inner) ==
    SelectSeq(inner, LAMBDA o : IsValueTok(text[o + 1]))

\* the array node that opens at sig[1] and closes at sig[c] (c > Len(sig): unclosed)
ArrayNode(text, sig, c) ==
    [kind |-> "array",
     errors |-> ~WellFormedInner(text, SubSeq(sig, 2, c - 1)) \/ c # Len(sig),
     offset |-> sig[1],
     length |-> sig[Min(c, Len(sig))] - sig[1] + 1,
     children |-> ValueOffsets(text, SubSeq(sig, 2, c - 1))]

\* a node without children
LeafNode(kind, errors, offset, length) ==
    [kind |-> kind, errors |-> errors, offset |-> offset, length |-> length,
     children |-> <<>>]

\* the root node of the text whose significant tokens are at sig
RootNode(text, sig) ==
    IF Len(sig) = 0 THEN LeafNode("undefined", FALSE, 0, 0)
    ELSE IF text[sig[1] + 1].t = "[" THEN ArrayNode(text, sig, FirstClose(text, sig, 2))
    ELSE IF text[sig[1] + 1].t = "obj" THEN LeafNode("object", Len(sig) > 1, sig[1], 1)
    ELSE IF text[sig[1] + 1].t \in Scalars
    THEN LeafNode(text[sig[1] + 1].t, Len(sig) > 1, sig[1], 1)
    ELSE LeafNode("undefined", TRUE, 0, 0)

\* The root node of the document with the parser's error flag.
\* kind: "undefined" (no value), "array", "object" or a scalar kind.
ParseTree(text) == RootNode(text, SigFrom(text, 1))

\* the value of root node p: an array is the sequence of its elements
ValueOf(text, p) ==
    [kind |-> p.kind,
     elems |-> [j \in 1..Len(p.children) |-> text[p.children[j] + 1]]]

\* json.parse(text)
JsonParse(text) == ValueOf(text, ParseTree(text))

\* the entries of a text that parses to an array
Entries(text) == JsonParse(text).elems

IsArrayNode(p) == p.kind = "array" /\ ~p.errors

IsArrayDoc(text) == IsArrayNode(ParseTree(text))

(***************************************************************************)
(* Expression canonicalizer collaborator                                   *)
(***************************************************************************)

\* ContextKeyExpr.deserialize(s).serialize(): conjuncts are put in order
Canon(s) == IF s = "b && a" THEN "a && b" ELSE s

(***************************************************************************)
(* Patch builder collaborator (setProperty of jsonEdit)                    *)
(***************************************************************************)

Edit(o, l, c) == [offset |-> o, length |-> l, content |-> c]

NoEdits == [edits |-> <<>>, throws |-> FALSE]

Throws == [edits |-> <<>>, throws |-> TRUE]

OneEdit(e) == [edits |-> <<e>>, throws |-> FALSE]

SetProp(entry, prop, value) ==
    IF prop = "key" THEN [entry EXCEPT !.key = value]
    ELSE [entry EXCEPT !.when = value]

GetProp(entry, prop) == IF prop = "key" THEN entry.key ELSE entry.when

\* the edit that sets prop of the element entry at offset o
EntryEdit(o, entry, prop, value) ==
    IF entry.t # "obj" THEN Throws
    ELSE IF value = Undefined /\ GetProp(entry, prop) = Undefined THEN NoEdits
    ELSE OneEdit(Edit(o, 1, <<SetProp(entry, prop, value)>>))

SetInNode(text, p, index, prop, value) ==
    IF p.kind # "array" \/ index < 0 \/ index >= Len(p.children) THEN Throws
    ELSE EntryEdit(p.children[index + 1], text[p.children[index + 1] + 1], prop, value)

\* setProperty(text, [index, prop], value): replace only that property of
\* element index; no edit when an absent property is set to undefined
setPropertyOfEntry(text, index, prop, value) ==
    SetInNode(text, ParseTree(text), index, prop, value)

AppendToNode(p, value) ==
    IF p.kind = "undefined" THEN OneEdit(Edit(0, 0, <<Tok("["), value, Tok("]")>>))
    ELSE IF p.kind # "array" THEN Throws
    ELSE IF Len(p.children) = 0 THEN OneEdit(Edit(p.offset + 1, 0, <<value>>))
    ELSE OneEdit(Edit(p.children[Len(p.children)] + 1, 0, <<Tok(","), value>>))

\* setProperty(text, [-1], value): append value before the closing bracket
setPropertyAppend(text, value) == AppendToNode(ParseTree(text), value)

RemoveFromNode(p, index) ==
    IF p.kind # "array" \/ index < 0 \/ index >= Len(p.children) THEN Throws
    ELSE IF Len(p.children) = 1 THEN OneEdit(Edit(p.offset + 1, p.length - 2, <<>>))
    ELSE IF index = Len(p.children) - 1
    THEN OneEdit(Edit(p.children[index] + 1,
                      p.children[index + 1] - p.children[index], <<>>))
    ELSE OneEdit(Edit(p.children[index + 1],
                      p.children[index + 2] - p.children[index + 1], <<>>))

\* setProperty(text, [index], undefined): delete the element and its separator
setPropertyRemove(text, index) == RemoveFromNode(ParseTree(text), index)

(***************************************************************************)
(* KeybindingsEditingService: the pure part                                *)
(***************************************************************************)

\* a keybinding item: the resolved binding a request is about.  when is the
\* serialized (canonical) form of its ContextKeyExpr, Undefined if it has none;
\* resolvedKeybinding tells whether it has one and label is what its
\* getUserSettingsLabel() returns
Item(d, c, w, r, l) ==
    [isDefault |-> d, command |-> c, when |-> w, resolvedKeybinding |-> r, label |-> l]

\* a text buffer after a step: threw tells that the step raised an exception
Ok(text) == [text |-> text, threw |-> FALSE]

Thrown(text) == [text |-> text, threw |-> TRUE]

\* the text with the tokens from start to end replaced by content
Replace(text, start, end, content) ==
    SubSeq(text, 1, start) \o content \o SubSeq(text, end + 1, Len(text))

\* model.getValueInRange / pushEditOperations: replace the range when it
\* holds text, insert at its start otherwise; positions are clamped to the text
applyEditsToBuffer(edit, text) ==
    IF SubSeq(text, Min(edit.offset, Len(text)) + 1,
              Min(edit.offset + edit.length, Len(text))) # <<>>
    THEN Replace(text, Min(edit.offset, Len(text)),
                 Min(edit.offset + edit.length, Len(text)), edit.content)
    ELSE Replace(text, Min(edit.offset, Len(text)), Min(edit.offset, Len(text)),
                 edit.content)

\* applyEditsToBuffer(setProperty(...)[0], model): setProperty may throw, and
\* element 0 of an empty edit list is undefined
ApplyFirstEdit(res, text) ==
    IF res.throws \/ Len(res.edits) = 0 THEN Thrown(text)
    ELSE Ok(applyEditsToBuffer(res.edits[1], text))

\* if (edits.length > 0) applyEditsToBuffer(edits[0], model)
ApplyIfAny(res, text) ==
    IF res.throws THEN Thrown(text)
    ELSE IF Len(res.edits) > 0 THEN Ok(applyEditsToBuffer(res.edits[1], text))
    ELSE Ok(text)

asObject(key, command, when, negate) ==
    Obj(key,
        IF Falsy(command) THEN Undefined
        ELSE IF negate THEN "-" \o command ELSE command,
        IF Falsy(when) THEN Undefined ELSE when)

\* reading .length of the parsed value throws for null and undefined
LengthThrows(value) == value.kind \in {"null", "undefined"}

\* the test with the entry's when compared as it is written
MatchesLiteral(keybinding, keybindingItem) ==
    /\ keybinding.command = keybindingItem.command
    /\ \/ Falsy(keybinding.when) /\ Falsy(keybindingItem.when)
       \/ /\ ~Falsy(keybinding.when) /\ ~Falsy(keybindingItem.when)
          /\ keybinding.when = keybindingItem.when

\* the test of the loop body of findUserKeybindingEntryIndex
Matches(keybinding, keybindingItem) ==
    /\ keybinding.command = keybindingItem.command
    /\ \/ Falsy(keybinding.when) /\ Falsy(keybindingItem.when)
       \/ /\ ~Falsy(keybinding.when) /\ ~Falsy(keybindingItem.when)
          /\ Canon(keybinding.when) = keybindingItem.when

RECURSIVE FindFrom(_, _, _)
FindFrom(keybindingItem, userKeybindingEntries, index) ==
    IF index >= Len(userKeybindingEntries) THEN -1
    ELSE IF Matches(userKeybindingEntries[index + 1], keybindingItem) THEN index
    ELSE FindFrom(keybindingItem, userKeybindingEntries, index + 1)

RECURSIVE FindDownFrom(_, _, _)
FindDownFrom(keybindingItem, userKeybindingEntries, index) ==
    IF index < 0 THEN -1
    ELSE IF Matches(userKeybindingEntries[index + 1], keybindingItem) THEN index
    ELSE FindDownFrom(keybindingItem, userKeybindingEntries, index - 1)

\* findUserKeybindingEntryIndex whose loop runs from the last index down
findLastUserKeybindingEntryIndex(keybindingItem, userKeybindingEntries) ==
    FindDownFrom(keybindingItem, userKeybindingEntries, Len(userKeybindingEntries) - 1)

\* the first index whose entry matches command and when, -1 if none
findUserKeybindingEntryIndex(keybindingItem, userKeybindingEntries) ==
    FindFrom(keybindingItem, userKeybindingEntries, 0)

RECURSIVE UnassignedFrom(_, _, _)
UnassignedFrom(keybindingItem, userKeybindingEntries, index) ==
    IF index >= Len(userKeybindingEntries) THEN <<>>
    ELSE (IF userKeybindingEntries[index + 1].command = "-" \o keybindingItem.command
          THEN <<index>> ELSE <<>>)
         \o UnassignedFrom(keybindingItem, userKeybindingEntries, index + 1)

\* findUnassignedDefaultKeybindingEntryIndex that returns at its first push
findFirstUnassignedDefaultKeybindingEntryIndex(keybindingItem, userKeybindingEntries) ==
    SubSeq(UnassignedFrom(keybindingItem, userKeybindingEntries, 0), 1,
           Min(1, Len(UnassignedFrom(keybindingItem, userKeybindingEntries, 0))))

\* every index whose command is "-" + command, ascending
findUnassignedDefaultKeybindingEntryIndex(keybindingItem, userKeybindingEntries) ==
    UnassignedFrom(keybindingItem, userKeybindingEntries, 0)

\* reading keybinding.command throws when the array element keybinding is null
ReadThrows(keybinding) == keybinding.t = "null"

\* the loop of findUserKeybindingEntryIndex reads a null element before it
\* returns userKeybindingEntryIndex
ThrowsBefore(userKeybindingEntries, userKeybindingEntryIndex) ==
    \E j \in 1..(IF userKeybindingEntryIndex = -1 THEN Len(userKeybindingEntries)
                  ELSE userKeybindingEntryIndex) :
        ReadThrows(userKeybindingEntries[j])

FindThrows(keybindingItem, userKeybindingEntries) ==
    ThrowsBefore(userKeybindingEntries,
                 findUserKeybindingEntryIndex(keybindingItem, userKeybindingEntries))

\* the loop of findUnassignedDefaultKeybindingEntryIndex reads every element
UnassignedThrows(userKeybindingEntries) ==
    \E j \in 1..Len(userKeybindingEntries) : ReadThrows(userKeybindingEntries[j])

Reverse(s) == [j \in 1..Len(s) |-> s[Len(s) + 1 - j]]

\* the second edit applied without the test of edits.length
UpdateWhenUnguarded(r, when, userKeybindingEntryIndex) ==
    IF r.threw THEN r
    ELSE ApplyFirstEdit(setPropertyOfEntry(r.text, userKeybindingEntryIndex, "when", when),
                        r.text)

\* the second edit of the update branch, on the buffer r the first edit left
UpdateWhen(r, when, userKeybindingEntryIndex) ==
    IF r.threw THEN r
    ELSE ApplyIfAny(setPropertyOfEntry(r.text, userKeybindingEntryIndex, "when", when),
                    r.text)

\* updateKeybinding that appends a new entry even when one was found
updateKeybindingAppendOnly(keybindingItem, newKey, when, text, userKeybindingEntryIndex) ==
    ApplyFirstEdit(
      setPropertyAppend(text, asObject(newKey, keybindingItem.command, when, FALSE)),
      text)

updateKeybinding(keybindingItem, newKey, when, text, userKeybindingEntryIndex) ==
    IF userKeybindingEntryIndex # -1
    THEN UpdateWhen(
           ApplyFirstEdit(
             setPropertyOfEntry(text, userKeybindingEntryIndex, "key", newKey), text),
           when, userKeybindingEntryIndex)
    ELSE ApplyFirstEdit(
           setPropertyAppend(text, asObject(newKey, keybindingItem.command, when, FALSE)),
           text)

\* if (userKeybindingEntryIndex !== -1) of removeUserKeybinding
RemoveAt(text, userKeybindingEntryIndex) ==
    IF userKeybindingEntryIndex # -1
    THEN ApplyFirstEdit(setPropertyRemove(text, userKeybindingEntryIndex), text)
    ELSE Ok(text)

RemoveUserIn(keybindingItem, text, value) ==
    IF LengthThrows(value) \/ FindThrows(keybindingItem, value.elems) THEN Thrown(text)
    ELSE RemoveAt(text, findUserKeybindingEntryIndex(keybindingItem, value.elems))

removeUserKeybinding(keybindingItem, text) ==
    RemoveUserIn(keybindingItem, text, JsonParse(text))

\* if (key) of removeDefaultKeybinding
AppendNegation(keybindingItem, text, key) ==
    IF key # Null /\ key # ""
    THEN ApplyFirstEdit(
           setPropertyAppend(text,
               asObject(key, keybindingItem.command, keybindingItem.when, TRUE)),
           text)
    ELSE Ok(text)

removeDefaultKeybinding(keybindingItem, text) ==
    AppendNegation(keybindingItem, text,
        IF keybindingItem.resolvedKeybinding THEN keybindingItem.label ELSE Null)

RECURSIVE RemoveIndices(_, _)
\* the for loop of removeUnassignedDefaultKeybinding over indices
RemoveIndices(indices, r) ==
    IF indices = <<>> \/ r.threw THEN r
    ELSE RemoveIndices(Tail(indices),
                       ApplyFirstEdit(setPropertyRemove(r.text, Head(indices)), r.text))

RemoveUnassignedIn(keybindingItem, text, value) ==
    IF LengthThrows(value) \/ UnassignedThrows(value.elems) THEN Thrown(text)
    ELSE RemoveIndices(
           Reverse(findUnassignedDefaultKeybindingEntryIndex(keybindingItem, value.elems)),
           Ok(text))

\* removeUnassignedDefaultKeybinding without .reverse(): ascending indices
removeUnassignedAscending(keybindingItem, text) ==
    IF LengthThrows(JsonParse(text)) \/ UnassignedThrows(Entries(text)) THEN Thrown(text)
    ELSE RemoveIndices(
           findUnassignedDefaultKeybindingEntryIndex(keybindingItem, Entries(text)),
           Ok(text))

removeUnassignedDefaultKeybinding(keybindingItem, text) ==
    RemoveUnassignedIn(keybindingItem, text, JsonParse(text))

\* the test without keybindingItem.isDefault
NegateIfResolved(keybindingItem, r) ==
    IF r.threw THEN r
    ELSE IF keybindingItem.resolvedKeybinding
    THEN removeDefaultKeybinding(keybindingItem, r.text)
    ELSE r

\* if (keybindingItem.isDefault && keybindingItem.resolvedKeybinding)
NegateIfDefault(keybindingItem, r) ==
    IF r.threw THEN r
    ELSE IF keybindingItem.isDefault /\ keybindingItem.resolvedKeybinding
    THEN removeDefaultKeybinding(keybindingItem, r.text)
    ELSE r

UpdateAfter(r, keybindingItem, key, when, userKeybindingEntryIndex) ==
    IF r.threw THEN r
    ELSE updateKeybinding(keybindingItem, key, when, r.text, userKeybindingEntryIndex)

\* the callback of doEditKeybinding with the negation entry appended before the
\* call of updateKeybinding
EditInNegationFirst(keybindingItem, key, when, text, value) ==
    IF LengthThrows(value) \/ FindThrows(keybindingItem, value.elems) THEN Thrown(text)
    ELSE UpdateAfter(NegateIfDefault(keybindingItem, Ok(text)), keybindingItem, key, when,
                     findUserKeybindingEntryIndex(keybindingItem, value.elems))

EditIn(keybindingItem, key, when, text, value) ==
    IF LengthThrows(value) \/ FindThrows(keybindingItem, value.elems) THEN Thrown(text)
    ELSE NegateIfDefault(keybindingItem,
           updateKeybinding(keybindingItem, key, when, text,
               findUserKeybindingEntryIndex(keybindingItem, value.elems)))

\* the callback of doEditKeybinding up to the call of save
doEditKeybinding(keybindingItem, key, when, text) ==
    EditIn(keybindingItem, key, when, text, JsonParse(text))

\* doRemoveKeybinding without the branch for default items
doRemoveKeybindingAsUser(keybindingItem, text) ==
    removeUserKeybinding(keybindingItem, text)

\* the callback of doRemoveKeybinding up to the call of save
doRemoveKeybinding(keybindingItem, text) ==
    IF keybindingItem.isDefault
    THEN removeDefaultKeybinding(keybindingItem, text)
    ELSE removeUserKeybinding(keybindingItem, text)

ThenRemoveUnassigned(keybindingItem, r) ==
    IF r.threw THEN r ELSE removeUnassignedDefaultKeybinding(keybindingItem, r.text)

\* doResetKeybinding without the test of keybindingItem.isDefault
doResetKeybindingAnyItem(keybindingItem, text) ==
    ThenRemoveUnassigned(keybindingItem, removeUserKeybinding(keybindingItem, text))

\* the callback of doResetKeybinding up to the call of save
doResetKeybinding(keybindingItem, text) ==
    IF ~keybindingItem.isDefault
    THEN ThenRemoveUnassigned(keybindingItem, removeUserKeybinding(keybindingItem, text))
    ELSE Ok(text)

\* '// ' + localize('emptyKeybindingsHeader', ...) + EOL + '[]'
getEmptyContent == <<Tok("//"), Tok("EOL"), Tok("["), Tok("]")>>

\* parse(model): { result, parseErrors }
parse(text) ==
    [result |-> JsonParse(text), parseErrors |-> ParseTree(text).errors]

\* if (parsed.result)
Truthy(value) == value.kind \in {"array", "object"} \/ value.kind \in Scalars \ FalsyScalars

\* EOL + '[]'
EmptyArrayLine == <<Tok("EOL"), Tok("["), Tok("]")>>

Accept(text) == [error |-> "", text |-> text]

Reject(error, text) == [error |-> error, text |-> text]

\* the branch of resolveAndValidate for a model that holds text
ValidateParsed(text, parsed) ==
    IF parsed.parseErrors THEN Reject("ParseError", text)
    ELSE IF Truthy(parsed.result)
    THEN IF parsed.result.kind # "array" THEN Reject("InvalidShapeError", text)
         ELSE Accept(text)
    ELSE Accept(applyEditsToBuffer(
                  Edit(Len(text), Len(EmptyArrayLine), EmptyArrayLine), text))

\* the body of resolveAndValidate after the model is resolved:
\* rejected with "ParseError" or "InvalidShapeError", or the model to patch
resolveAndValidate(text) ==
    IF text # <<>>
    THEN ValidateParsed(text, parse(text))
    ELSE Accept(applyEditsToBuffer(
                  Edit(0, Len(getEmptyContent), getEmptyContent), text))

\* (await read(USER_KEYBINDINGS_KEY)) || '[]'
ReadContent(stored) == IF stored = <<>> THEN <<Tok("["), Tok("]")>> ELSE stored

(***************************************************************************)
(* State                                                                   *)
(***************************************************************************)

VARIABLES
    store,                \* the backing store's text under USER_KEYBINDINGS_KEY
    tasks,                \* every submitted operation, in submission order
    outstandingPromises,  \* the queue's waiting factories (indices into tasks)
    runningPromises,      \* the queue's count of started, unsettled factories
    models,               \* the tasks whose text model is live in the model service
    initial               \* the stored text at construction (never changes)

vars == <<store, tasks, outstandingPromises, runningPromises, models, initial>>

\* new Queue(): a Limiter of one
maxDegreeOfParalellism == 1

\* a submitted operation before its factory runs.  read is the stored text its
\* read returned, start the stored text when its factory ran, writes the number
\* of calls of userDataService.write, created whether it created a model, and
\* ahead the number of unsettled operations when it was submitted
NewTask(op, keybindingItem, key, when) ==
    [op |-> op, item |-> keybindingItem, key |-> key, when |-> when,
     pc |-> "queued", error |-> "", text |-> <<>>, read |-> <<>>, start |-> <<>>,
     writes |-> 0, created |-> FALSE,
     ahead |-> Cardinality({j \in 1..Len(tasks) : tasks[j].pc \notin {"resolved", "rejected"}})]

Active == {"read", "validate", "patch", "write"}

Settled == {"resolved", "rejected"}

\* factory(): the do* method runs up to its first await, the read of the store
StartTask(ts, k, stored) ==
    [ts EXCEPT ![k].pc = "read", ![k].start = stored]

RECURSIVE Consume(_, _, _, _)
\* Limiter.consume(): start waiting factories while the limit allows
Consume(ts, out, run, stored) ==
    IF out # <<>> /\ run < maxDegreeOfParalellism
    THEN Consume(StartTask(ts, Head(out), stored), Tail(out), run + 1, stored)
    ELSE [tasks |-> ts, outstanding |-> out, running |-> run]

SetQueue(c) ==
    /\ tasks' = c.tasks
    /\ outstandingPromises' = c.outstanding
    /\ runningPromises' = c.running

\* Limiter.queue(factory): push, then consume
QueueQueue(task) ==
    SetQueue(Consume(Append(tasks, task), Append(outstandingPromises, Len(tasks) + 1),
                     runningPromises, store))

\* task k's promise settles; Limiter.consumed(): one less running, then consume
Settle(ts, k, outcome, error) ==
    SetQueue(Consume([ts EXCEPT ![k].pc = outcome, ![k].error = error],
                     outstandingPromises, runningPromises - 1, store'))

(***************************************************************************)
(* Operations                                                              *)
(***************************************************************************)

editKeybinding(keybindingItem, key, when) ==
    /\ QueueQueue(NewTask("edit", keybindingItem, key, when))
    /\ UNCHANGED <<store, models, initial>>

\* resetKeybinding that calls doResetKeybinding without the queue
resetKeybindingUnqueued(keybindingItem) ==
    /\ tasks' = StartTask(Append(tasks, NewTask("reset", keybindingItem, Undefined,
                                                Undefined)),
                          Len(tasks) + 1, store)
    /\ runningPromises' = runningPromises + 1
    /\ UNCHANGED <<store, models, initial, outstandingPromises>>

resetKeybinding(keybindingItem) ==
    /\ QueueQueue(NewTask("reset", keybindingItem, Undefined, Undefined))
    /\ UNCHANGED <<store, models, initial>>

\* removeKeybinding that calls doRemoveKeybinding without the queue
removeKeybindingUnqueued(keybindingItem) ==
    /\ tasks' = StartTask(Append(tasks, NewTask("remove", keybindingItem, Undefined,
                                                Undefined)),
                          Len(tasks) + 1, store)
    /\ runningPromises' = runningPromises + 1
    /\ UNCHANGED <<store, models, initial, outstandingPromises>>

removeKeybinding(keybindingItem) ==
    /\ QueueQueue(NewTask("remove", keybindingItem, Undefined, Undefined))
    /\ UNCHANGED <<store, models, initial>>

\* userDataService.read rejects: the operation rejects, no model was created
readFails(k) ==
    /\ tasks[k].pc = "read"
    /\ UNCHANGED <<store, models, initial>>
    /\ Settle(tasks, k, "rejected", "ReadError")

\* resolveModel: the read returns and the model is created with its content
resolveModel(k) ==
    /\ tasks[k].pc = "read"
    /\ models' = models \cup {k}
    /\ tasks' = [tasks EXCEPT ![k].pc = "validate", ![k].read = store,
                              ![k].text = ReadContent(store), ![k].created = TRUE]
    /\ UNCHANGED <<store, outstandingPromises, runningPromises, initial>>

\* modelService.createModel may refuse an identity that is still live
createModelFails(k) ==
    /\ tasks[k].pc = "read"
    /\ models # {}
    /\ UNCHANGED <<store, models, initial>>
    /\ Settle([tasks EXCEPT ![k].read = store], k, "rejected", "ModelExists")

\* resolveAndValidate returned v: its promise rejects or resolves with the model
Validated(k, v) ==
    IF v.error # ""
    THEN Settle(tasks, k, "rejected", v.error)
    ELSE /\ tasks' = [tasks EXCEPT ![k].pc = "patch", ![k].text = v.text]
         /\ UNCHANGED <<outstandingPromises, runningPromises>>

\* validate that persists the repaired buffer as soon as it is accepted
validateEager(k) ==
    /\ tasks[k].pc = "validate"
    /\ store' = IF resolveAndValidate(tasks[k].text).error = ""
                THEN resolveAndValidate(tasks[k].text).text ELSE store
    /\ UNCHANGED <<models, initial>>
    /\ Validated(k, resolveAndValidate(tasks[k].text))

\* resolveAndValidate after the model is resolved
validate(k) ==
    /\ tasks[k].pc = "validate"
    /\ UNCHANGED <<store, models, initial>>
    /\ Validated(k, resolveAndValidate(tasks[k].text))

\* the edits of operation t on the validated text
Patch(t) ==
    CASE t.op = "edit" -> doEditKeybinding(t.item, t.key, t.when, t.text)
      [] t.op = "remove" -> doRemoveKeybinding(t.item, t.text)
      [] OTHER -> doResetKeybinding(t.item, t.text)

\* the callback left buffer r: it threw, or it called save, whose first
\* statement passes model.getValue() to userDataService.write
Patched(k, r) ==
    IF r.threw
    THEN Settle([tasks EXCEPT ![k].text = r.text], k, "rejected", "PatchError")
    ELSE /\ tasks' = [tasks EXCEPT ![k].pc = "write", ![k].text = r.text,
                                   ![k].writes = @ + 1]
         /\ UNCHANGED <<outstandingPromises, runningPromises>>

\* the then-callback of do*Keybinding: patch the model, then call save, which
\* passes model.getValue() to userDataService.write
patch(k) ==
    /\ tasks[k].pc = "patch"
    /\ UNCHANGED <<store, models, initial>>
    /\ Patched(k, Patch(tasks[k]))

\* save: the write returned; model.dispose() and modelService.destroyModel
save(k) ==
    /\ tasks[k].pc = "write"
    /\ store' = tasks[k].text
    /\ models' = models \ {k}
    /\ UNCHANGED initial
    /\ Settle(tasks, k, "resolved", "")

\* save: the write rejects; the statements after the await do not run
saveFails(k) ==
    /\ tasks[k].pc = "write"
    /\ UNCHANGED <<store, models, initial>>
    /\ Settle(tasks, k, "rejected", "WriteError")

(***************************************************************************)
(* Inputs                                                                  *)
(***************************************************************************)

\* the most operations submitted in one behaviour of Spec
MaxOps == 2

\* the most entries of an initial document of SpecEdit
MaxEntries == 2

E1 == Obj("k1", "c", Undefined)

E2 == Obj("k1", "-c", "a && b")

UserC == Item(FALSE, "c", Undefined, TRUE, "k1")

DefaultC == Item(TRUE, "c", "a && b", TRUE, "k0")

Arr(entries) ==
    <<Tok("[")>>
    \o [j \in 1..(2 * Len(entries) - 1) |->
          IF j % 2 = 1 THEN entries[(j + 1) \div 2] ELSE Tok(",")]
    \o <<Tok("]")>>

\* initial documents of Spec: empty, arrays, a falsy literal, a malformed text
QueueDocs ==
    {<<>>, Arr(<<>>), Arr(<<E1>>), Arr(<<E2, E1>>), <<Tok("0")>>, <<Tok("["), Tok(",")>>}

EditEntries ==
    {Obj("k1", c, w) : c \in {"c", "-c"}, w \in {Undefined, "b && a", "x"}}
    \cup {Obj("k1", "d", Undefined)}

RECURSIVE SeqsUpTo(_, _)
\* the sequences over S of length at most n
SeqsUpTo(S, n) ==
    IF n = 0 THEN {<<>>}
    ELSE LET shorter == SeqsUpTo(S, n - 1)
         IN shorter \cup {Append(q, x) : q \in shorter, x \in S}

Header == <<Tok("//"), Tok("EOL")>>

\* arrays with an element that is not an entry object, with an entry whose when
\* is the empty string, and with negation entries around other entries
ShapedDocs ==
    {Arr(<<Tok("null")>>), Arr(<<E1, Tok("null")>>), Arr(<<Tok("1")>>),
     Arr(<<Obj("k1", "c", "")>>),
     Arr(<<Obj("k1", "-c", Undefined), E1, Obj("k1", "-c", "x")>>),
     Arr(<<E2, E2, Obj("k1", "d", Undefined)>>)}

\* initial documents of SpecEdit: arrays with and without a leading comment,
\* every other top-level value, texts without a value, malformed texts
EditDocs ==
    {Arr(es) : es \in SeqsUpTo(EditEntries, MaxEntries)}
    \cup ShapedDocs
    \cup {Header \o Arr(es) : es \in SeqsUpTo(EditEntries, 1)}
    \cup {<<Tok(k)>> : k \in Scalars}
    \cup {<<>>, Header, <<E1>>, <<Tok("["), E1, Tok(","), Tok("]")>>,
          <<Tok("["), E1>>, Arr(<<E1>>) \o <<Tok("]")>>, <<Tok("junk")>>}

EditItems ==
    {Item(d, "c", w, r[1], r[2]) :
        d \in BOOLEAN, w \in {Undefined, "a && b"},
        r \in {<<FALSE, Null>>, <<TRUE, Null>>, <<TRUE, "k0">>}}

NewWhens == {Undefined, "b && a", "x"}

TypeOK ==
    /\ runningPromises \in 0..Len(tasks)
    /\ models \subseteq 1..Len(tasks)
    /\ \A j \in 1..Len(outstandingPromises) : outstandingPromises[j] \in 1..Len(tasks)

(***************************************************************************)
(* Specifications                                                          *)
(***************************************************************************)

InitWith(docs) ==
    /\ store \in docs
    /\ initial = store
    /\ tasks = <<>>
    /\ outstandingPromises = <<>>
    /\ runningPromises = 0
    /\ models = {}

Init == InitWith(QueueDocs)

\* up to MaxOps operations, issued at any time without awaiting
Next ==
    \/ \E w \in {Undefined, "x"} :
         Len(tasks) < MaxOps /\ editKeybinding(UserC, "k2", w)
    \/ Len(tasks) < MaxOps /\ editKeybinding(DefaultC, "k2", "a && b")
    \/ Len(tasks) < MaxOps /\ removeKeybinding(UserC)
    \/ Len(tasks) < MaxOps /\ resetKeybinding(UserC)
    \/ \E k \in 1..Len(tasks) : readFails(k)
    \/ \E k \in 1..Len(tasks) : resolveModel(k)
    \/ \E k \in 1..Len(tasks) : createModelFails(k)
    \/ \E k \in 1..Len(tasks) : validate(k)
    \/ \E k \in 1..Len(tasks) : patch(k)
    \/ \E k \in 1..Len(tasks) : save(k)
    \/ \E k \in 1..Len(tasks) : saveFails(k)

Spec == Init /\ [][Next]_vars

InitEdit == InitWith(EditDocs)

\* one operation on any document; with a single operation no model is live
\* when it creates its own, so createModel cannot meet a live identity
NextEdit ==
    \/ \E it \in EditItems, w \in NewWhens :
         Len(tasks) < 1 /\ editKeybinding(it, "k2", w)
    \/ \E it \in EditItems : Len(tasks) < 1 /\ removeKeybinding(it)
    \/ \E it \in EditItems : Len(tasks) < 1 /\ resetKeybinding(it)
    \/ \E k \in 1..Len(tasks) : readFails(k)
    \/ \E k \in 1..Len(tasks) : resolveModel(k)
    \/ \E k \in 1..Len(tasks) : validate(k)
    \/ \E k \in 1..Len(tasks) : patch(k)
    \/ \E k \in 1..Len(tasks) : save(k)
    \/ \E k \in 1..Len(tasks) : saveFails(k)

SpecEdit == InitEdit /\ [][NextEdit]_vars

\* initial documents of SpecRepeat: the arrays of entries
RepeatDocs == {Arr(es) : es \in SeqsUpTo(EditEntries, MaxEntries)}

RepeatItems == {it \in EditItems : ~it.isDefault}

InitRepeat == InitWith(RepeatDocs)

\* an edit of a user-defined item and, once its promise has resolved, the same
\* request again; the first model is destroyed before the second is created
NextRepeat ==
    \/ \E it \in RepeatItems, w \in NewWhens :
         Len(tasks) = 0 /\ editKeybinding(it, "k2", w)
    \/ /\ Len(tasks) = 1 /\ tasks[1].pc = "resolved"
       /\ editKeybinding(tasks[1].item, tasks[1].key, tasks[1].when)
    \/ \E k \in 1..Len(tasks) : readFails(k)
    \/ \E k \in 1..Len(tasks) : resolveModel(k)
    \/ \E k \in 1..Len(tasks) : validate(k)
    \/ \E k \in 1..Len(tasks) : patch(k)
    \/ \E k \in 1..Len(tasks) : save(k)
    \/ \E k \in 1..Len(tasks) : saveFails(k)

SpecRepeat == InitRepeat /\ [][NextRepeat]_vars

(***************************************************************************)
(* Properties of the queue (Spec)                                          *)
(***************************************************************************)

Started(k) == tasks[k].pc # "queued"

IsSettled(k) == tasks[k].pc \in Settled

AllSettled == \A k \in 1..Len(tasks) : IsSettled(k)

\* C1: at most one operation's sequence (read, validation, patching, write,
\* release) is in progress at any time, and no operation's work has begun
\* while an operation submitted before it has not yet settled.
C1_Serialized ==
    /\ Cardinality({k \in 1..Len(tasks) : tasks[k].pc \in Active}) <= 1
    /\ \A j, k \in 1..Len(tasks) : (j < k /\ Started(k)) => IsSettled(j)

\* two operations issued back to back: the second, submitted while the first
\* was in progress, started after the first failed and is writing
C1_Witness ==
    /\ Len(tasks) = 2
    /\ tasks[1].pc = "rejected"
    /\ tasks[2].pc = "write" /\ tasks[2].ahead = 1

\* what operation t, run alone and awaited, leaves of the stored text doc
Cycle(doc, t) ==
    Patch([t EXCEPT !.text = resolveAndValidate(ReadContent(doc)).text]).text

RECURSIVE SerialStore(_)
\* the stored text after the first n operations are applied one at a time, each
\* awaited, in submission order (an operation that failed wrote nothing)
SerialStore(n) ==
    IF n = 0 THEN initial
    ELSE IF tasks[n].pc = "resolved" THEN Cycle(SerialStore(n - 1), tasks[n])
    ELSE SerialStore(n - 1)

\* C2: every operation reads the document its predecessors left (no write
\* falls between its read and its own write), it calls write at most once, and
\* when all operations have settled the stored document is the one obtained by
\* applying them one at a time in submission order.
C2_NoLostUpdate ==
    /\ \A k \in 1..Len(tasks) :
         /\ tasks[k].pc \in {"validate", "patch", "write"} => tasks[k].read = store
         /\ tasks[k].created => tasks[k].read = SerialStore(k - 1)
         /\ tasks[k].writes <= 1
    /\ AllSettled => store = SerialStore(Len(tasks))

\* two operations were issued while neither had settled, both succeeded, and
\* the second changed the document that the first wrote
C2_Witness ==
    /\ Len(tasks) = 2
    /\ \A k \in 1..2 : tasks[k].pc = "resolved" /\ tasks[k].ahead = k - 1
    /\ tasks[1].read # tasks[2].read
    /\ tasks[2].read # store

AloneValidated(t, v) ==
    IF v.error # "" THEN v.error
    ELSE IF Patch([t EXCEPT !.text = v.text]).threw THEN "PatchError"
    ELSE ""

\* the error of operation t when it alone runs on the stored text doc and the
\* store's read and write succeed; "" when it succeeds
AloneOutcome(doc, t) == AloneValidated(t, resolveAndValidate(ReadContent(doc)))

\* C3: an operation queued after a failed one, whose own read and write do
\* not fail, fails only if it would also have failed alone on the same stored
\* document.
C3_FailureIsolated ==
    \A j, k \in 1..Len(tasks) :
        (/\ j < k
         /\ tasks[j].pc = "rejected"
         /\ tasks[k].pc = "rejected"
         /\ tasks[k].error \notin {"ReadError", "WriteError"})
        => AloneOutcome(tasks[k].start, tasks[k]) # ""

\* C4: when an operation rejects for a failure before the persist step (read
\* error, parse error, invalid shape, an exception while patching), the stored
\* document is what it was when the operation started and write was not called.
C4_NoPartialWrites ==
    [][\A k \in 1..Len(tasks) :
         (/\ tasks[k].pc \in Active
          /\ tasks'[k].pc = "rejected"
          /\ tasks'[k].error # "WriteError")
         => (store' = tasks[k].start /\ store = tasks[k].start /\ tasks'[k].writes = 0)]_vars

\* an operation threw while patching a buffer that validation had repaired
C4_Witness ==
    \E k \in 1..Len(tasks) :
        /\ tasks[k].pc = "rejected"
        /\ tasks[k].error = "PatchError"
        /\ tasks[k].text # tasks[k].read
        /\ store = tasks[k].start

\* C5: after an operation rejects because the write failed, its buffer is
\* released: no live model of that operation remains.
C5_ReleasedOnWriteFailure ==
    \A k \in 1..Len(tasks) :
        (tasks[k].pc = "rejected" /\ tasks[k].error = "WriteError") => k \notin models

(***************************************************************************)
(* Properties of one operation (SpecEdit)                                  *)
(***************************************************************************)

\* the top-level value of the stored text that operation t read
StoredKind(t) == ParseTree(t.read).kind

StoredErrors(t) == ParseTree(t.read).errors

\* C6: an operation on a stored document that does not parse rejects with
\* ParseError, and an operation on a stored document whose top-level value is
\* an object, a string, a number, a boolean or null rejects with
\* InvalidShapeError; in both cases the buffer is not changed and write is not
\* called.
C6_NonArrayRejected ==
    \A k \in 1..Len(tasks) :
        (tasks[k].created /\ tasks[k].pc # "validate")
        => /\ StoredErrors(tasks[k])
              => /\ tasks[k].pc = "rejected" /\ tasks[k].error = "ParseError"
                 /\ tasks[k].text = tasks[k].read /\ tasks[k].writes = 0
           /\ (~StoredErrors(tasks[k]) /\ StoredKind(tasks[k]) \in {"object"} \cup Scalars)
              => /\ tasks[k].pc = "rejected" /\ tasks[k].error = "InvalidShapeError"
                 /\ tasks[k].text = tasks[k].read /\ tasks[k].writes = 0

\* C7: when the store returned empty text, the buffer that resolveAndValidate
\* returns is the placeholder comment line followed by [], it parses to an
\* empty array, and the text patched and persisted keeps the comment.
C7_EmptyBootstrap ==
    \A k \in 1..Len(tasks) :
        (tasks[k].created /\ tasks[k].read = <<>>)
        => /\ tasks[k].pc = "patch"
              => /\ tasks[k].text = getEmptyContent
                 /\ IsArrayDoc(tasks[k].text) /\ Entries(tasks[k].text) = <<>>
           /\ tasks[k].pc \in {"write", "resolved"}
              => /\ Len(tasks[k].text) >= Len(getEmptyContent)
                 /\ SubSeq(tasks[k].text, 1, 2) = Header

\* C8: whenever an operation is about to patch, is persisting or has
\* persisted, its buffer's text parses without errors to a JSON array.
C8_WellFormed ==
    \A k \in 1..Len(tasks) :
        tasks[k].pc \in {"patch", "write", "resolved"} => IsArrayDoc(tasks[k].text)

\* the entries operation t found in the document it read
Before(t) == Entries(ReadContent(t.read))

\* the entries of operation t's buffer
After(t) == Entries(t.text)

MatchIndex(t) == findUserKeybindingEntryIndex(t.item, Before(t))

\* operation t is an edit that passed its patch step
Edited(t) == t.op = "edit" /\ t.pc \in {"write", "resolved"}

\* C9: an edit of a user-defined item whose entry exists at index i leaves the
\* array length unchanged, gives entry i the new key and the new when and keeps
\* its command, and leaves every other entry, and every other token of the
\* text, as it was; that text is what is persisted.
C9_EditInPlace ==
    \A k \in 1..Len(tasks) :
        (Edited(tasks[k]) /\ ~tasks[k].item.isDefault /\ MatchIndex(tasks[k]) # -1)
        => LET t == tasks[k]
               i == MatchIndex(t) + 1
               o == ParseTree(t.read).children[i] + 1
           IN /\ Len(After(t)) = Len(Before(t))
              /\ After(t)[i] = Obj(t.key, Before(t)[i].command, t.when)
              /\ \A j \in 1..Len(Before(t)) : j # i => After(t)[j] = Before(t)[j]
              /\ Len(t.text) = Len(t.read)
              /\ \A q \in 1..Len(t.read) : q # o => t.text[q] = t.read[q]
              /\ t.text[o] = After(t)[i]
              /\ t.pc = "resolved" => store = t.text

\* an edit of the second of two entries, which had a when, to a new key and
\* no when has been persisted
C9_Witness ==
    \E k \in 1..Len(tasks) :
        /\ Edited(tasks[k]) /\ ~tasks[k].item.isDefault
        /\ tasks[k].pc = "resolved"
        /\ Len(Before(tasks[k])) = 2
        /\ MatchIndex(tasks[k]) = 1
        /\ Before(tasks[k])[2].when = "b && a"
        /\ tasks[k].when = Undefined
        /\ Entries(store)[2] = Obj("k2", "c", Undefined)

\* the edit appended to the entries it read: they are followed by the new entry
Appended(t) ==
    /\ Len(After(t)) > Len(Before(t))
    /\ SubSeq(After(t), 1, Len(Before(t))) = Before(t)
    /\ After(t)[Len(Before(t)) + 1] = Obj(t.key, t.item.command, t.when)

HasLabel(item) == item.resolvedKeybinding /\ item.label \notin {Null, ""}

\* C10 as stated: an edit with no matching user entry appends the new entry;
\* the length grows by 1 for a user-defined item and by 2 for every default item.
C10_Original ==
    \A k \in 1..Len(tasks) :
        (Edited(tasks[k]) /\ MatchIndex(tasks[k]) = -1)
        => /\ Appended(tasks[k])
           /\ Len(After(tasks[k])) =
                Len(Before(tasks[k])) + (IF tasks[k].item.isDefault THEN 2 ELSE 1)

\* C10: an edit with no matching user entry appends the new entry; the length
\* grows by 2 when the item is a default binding whose resolved keybinding has a
\* user settings label, and by 1 otherwise (a user-defined item, or a default
\* item without a resolved keybinding or without a label).
C10_Append ==
    \A k \in 1..Len(tasks) :
        (Edited(tasks[k]) /\ MatchIndex(tasks[k]) = -1)
        => /\ Appended(tasks[k])
           /\ Len(After(tasks[k])) =
                Len(Before(tasks[k]))
                + (IF tasks[k].item.isDefault /\ HasLabel(tasks[k].item) THEN 2 ELSE 1)
           /\ tasks[k].pc = "resolved" => store = tasks[k].text

\* an edit of a default item with a label, on two entries that do not match,
\* has persisted the new entry and the negation entry after them
C10_Witness ==
    \E k \in 1..Len(tasks) :
        /\ Edited(tasks[k]) /\ tasks[k].pc = "resolved"
        /\ tasks[k].item.isDefault /\ HasLabel(tasks[k].item)
        /\ MatchIndex(tasks[k]) = -1
        /\ Len(Before(tasks[k])) = 2
        /\ Len(Entries(store)) = 4
        /\ Entries(store)[4].command = "-c"

(***************************************************************************)
(* Properties of remove and reset (SpecEdit)                               *)
(***************************************************************************)

\* the entries of s whose command is c
WithCommand(s, c) == SelectSeq(s, LAMBDA e : e.command = c)

\* the sequence s without its element at 0-based index i (s when i = -1)
Without(s, i) ==
    IF i = -1 THEN s ELSE SubSeq(s, 1, i) \o SubSeq(s, i + 2, Len(s))

\* operation t is a reset of a user-defined item on a stored array (or on an
\* empty store) that succeeded
ResetDone(t) ==
    /\ t.op = "reset" /\ ~t.item.isDefault
    /\ t.pc = "resolved"
    /\ IsArrayDoc(ReadContent(t.read))

\* C11 as stated: after a successful reset of a user-defined item with command
\* c, the persisted document holds no entry with command c and no entry with
\* command "-" + c, whatever entries the initial array held.
C11_Original ==
    \A k \in 1..Len(tasks) :
        ResetDone(tasks[k])
        => /\ WithCommand(Entries(store), tasks[k].item.command) = <<>>
           /\ WithCommand(Entries(store), "-" \o tasks[k].item.command) = <<>>

\* C11: after a successful reset of a user-defined item with command c and
\* when w, the persisted document holds no entry with command "-" + c, and its
\* entries with command c are those of the initial array without the first one
\* that matches (c, w): other entries for c (another when, or a duplicate) stay.
C11_Reset ==
    \A k \in 1..Len(tasks) :
        ResetDone(tasks[k])
        => /\ WithCommand(Entries(store), "-" \o tasks[k].item.command) = <<>>
           /\ WithCommand(Entries(store), tasks[k].item.command)
                = WithCommand(Without(Before(tasks[k]), MatchIndex(tasks[k])),
                              tasks[k].item.command)

\* a reset of a user-defined item on [negation, entry, negation with another
\* when] has persisted the empty array
C11_Witness ==
    \E k \in 1..Len(tasks) :
        /\ ResetDone(tasks[k])
        /\ Len(Before(tasks[k])) = 3
        /\ Len(WithCommand(Before(tasks[k]), "-c")) = 2
        /\ MatchIndex(tasks[k]) = 1
        /\ Entries(store) = <<>>

\* operation t is a remove on a stored array (or on an empty store) that
\* passed its patch step
RemoveDone(t) ==
    /\ t.op = "remove"
    /\ t.pc \in {"write", "resolved"}
    /\ IsArrayDoc(ReadContent(t.read))

\* the negation entry of item: its label, "-" + its command, its current when
Negation(item) == Obj(item.label, "-" \o item.command, item.when)

\* C12 as stated: a remove of any default item leaves the entries it read and
\* appends the negation entry; a remove of a user-defined item deletes the
\* first matching entry and nothing else, and appends nothing.
C12_Original ==
    \A k \in 1..Len(tasks) :
        RemoveDone(tasks[k])
        => IF tasks[k].item.isDefault
           THEN After(tasks[k]) = Append(Before(tasks[k]), Negation(tasks[k].item))
           ELSE After(tasks[k]) = Without(Before(tasks[k]), MatchIndex(tasks[k]))

\* C12: a remove of a default item whose resolved keybinding has a user
\* settings label leaves the entries it read and appends the negation entry
\* {label, "-" + command, current when}; a remove of a default item without a
\* resolved keybinding or without a label changes no entry; a remove of a
\* user-defined item deletes the first entry matching (command, current when)
\* and nothing else (no entry when none matches); that text is persisted.
C12_Remove ==
    \A k \in 1..Len(tasks) :
        RemoveDone(tasks[k])
        => /\ (tasks[k].item.isDefault /\ HasLabel(tasks[k].item))
              => After(tasks[k]) = Append(Before(tasks[k]), Negation(tasks[k].item))
           /\ (tasks[k].item.isDefault /\ ~HasLabel(tasks[k].item))
              => After(tasks[k]) = Before(tasks[k])
           /\ ~tasks[k].item.isDefault
              => After(tasks[k]) = Without(Before(tasks[k]), MatchIndex(tasks[k]))
           /\ tasks[k].pc = "resolved" => store = tasks[k].text

\* a remove of a default item with a label and a when, on two entries one of
\* which matches it, has persisted both followed by the negation entry
C12_Witness ==
    \E k \in 1..Len(tasks) :
        /\ RemoveDone(tasks[k]) /\ tasks[k].pc = "resolved"
        /\ tasks[k].item.isDefault /\ HasLabel(tasks[k].item)
        /\ Len(Before(tasks[k])) = 2
        /\ MatchIndex(tasks[k]) = 0
        /\ Entries(store) = Before(tasks[k]) \o <<Obj("k0", "-c", "a && b")>>

(***************************************************************************)
(* Properties of the entry matcher (SpecEdit)                              *)
(***************************************************************************)

\* the when conditions match: both absent (missing or empty), or both present
\* with the same canonical serialization
SameWhen(entryWhen, itemWhen) ==
    \/ entryWhen \in {Undefined, ""} /\ itemWhen \in {Undefined, ""}
    \/ /\ entryWhen \notin {Undefined, ""} /\ itemWhen \notin {Undefined, ""}
       /\ Canon(entryWhen) = Canon(itemWhen)

\* the 0-based indices of the entries that item matches
MatchSet(entries, item) ==
    {i \in 0..(Len(entries) - 1) :
        /\ entries[i + 1].command = item.command
        /\ SameWhen(entries[i + 1].when, item.when)}

\* operation t has run the matcher on the entries it read, and it returned
Matched(t) ==
    /\ t.pc \in {"write", "resolved"}
    /\ t.op = "edit" \/ ~t.item.isDefault
    /\ IsArrayDoc(ReadContent(t.read))

\* C13: on the entries an operation read, the matcher returns the smallest
\* index whose entry has the item's command and a matching when (both absent,
\* or both present and canonically equal), and -1 when there is none.
C13_FirstMatch ==
    \A k \in 1..Len(tasks) :
        Matched(tasks[k])
        => IF MatchSet(Before(tasks[k]), tasks[k].item) = {}
           THEN MatchIndex(tasks[k]) = -1
           ELSE /\ MatchIndex(tasks[k]) \in MatchSet(Before(tasks[k]), tasks[k].item)
                /\ \A i \in MatchSet(Before(tasks[k]), tasks[k].item) :
                     MatchIndex(tasks[k]) <= i

\* the matcher passed over an entry for the command without a when and returned
\* the second entry, whose when is written differently from the item's
C13_Witness ==
    \E k \in 1..Len(tasks) :
        /\ Matched(tasks[k])
        /\ Len(Before(tasks[k])) = 2
        /\ Before(tasks[k])[1] = Obj("k1", "c", Undefined)
        /\ Before(tasks[k])[2] = Obj("k1", "c", "b && a")
        /\ tasks[k].item.when = "a && b"
        /\ MatchIndex(tasks[k]) = 1

(***************************************************************************)
(* Properties of the negation entry of an edit (SpecEdit)                  *)
(***************************************************************************)

\* the entries operation t read with its override: the matched entry with the
\* new key and the new when, or the new entry after them when none matches
Overridden(t) ==
    IF MatchIndex(t) = -1
    THEN Append(Before(t), Obj(t.key, t.item.command, t.when))
    ELSE [Before(t) EXCEPT ![MatchIndex(t) + 1] = Obj(t.key, @.command, t.when)]

\* operation t is an edit of a default item on a stored array (or on an empty
\* store) that passed its patch step
OverrideDone(t) ==
    /\ Edited(t) /\ t.item.isDefault
    /\ IsArrayDoc(ReadContent(t.read))

\* C14 as stated: an edit of any default item leaves the array ending with
\* the negation entry, after the override.
C14_Original ==
    \A k \in 1..Len(tasks) :
        OverrideDone(tasks[k])
        => After(tasks[k]) = Append(Overridden(tasks[k]), Negation(tasks[k].item))

\* C14: an edit of a default item whose resolved keybinding has a user
\* settings label leaves the array ending with the negation entry {label,
\* "-" + command, the item's current when}, after the override (the new key
\* and the requested when go to the override only); an edit of a default item
\* without a resolved keybinding or without a label leaves the override alone.
C14_NegationLast ==
    \A k \in 1..Len(tasks) :
        OverrideDone(tasks[k])
        => /\ HasLabel(tasks[k].item)
              => /\ After(tasks[k]) = Append(Overridden(tasks[k]), Negation(tasks[k].item))
                 /\ After(tasks[k])[Len(After(tasks[k]))]
                      = Obj(tasks[k].item.label, "-c", tasks[k].item.when)
           /\ ~HasLabel(tasks[k].item) => After(tasks[k]) = Overridden(tasks[k])
           /\ tasks[k].pc = "resolved" => store = tasks[k].text

\* an edit of a default item with when "a && b" and label k0 to key k2 and
\* when "x" on the stored text [] has persisted exactly [override, negation]
C14_Witness ==
    \E k \in 1..Len(tasks) :
        /\ OverrideDone(tasks[k]) /\ tasks[k].pc = "resolved"
        /\ tasks[k].read = Arr(<<>>)
        /\ tasks[k].when = "x"
        /\ Entries(store) = <<Obj("k2", "c", "x"), Obj("k0", "-c", "a && b")>>

(***************************************************************************)
(* Properties of reset (SpecEdit)                                          *)
(***************************************************************************)

\* operation t is a reset of a user-defined item on a stored array of entries
\* (or on an empty store)
ResetOfUser(t) ==
    /\ t.op = "reset" /\ ~t.item.isDefault
    /\ t.created
    /\ IsArrayDoc(ReadContent(t.read))
    /\ ~UnassignedThrows(Before(t))

\* the entries of s that are not negation entries of command c
NotNegating(s, c) == SelectSeq(s, LAMBDA e : e.command # "-" \o c)

\* C15: a reset of a user-defined item with command c removes exactly the
\* first entry matching (c, current when) and every entry with command "-" + c
\* whatever its when; every deletion is applied at the index of the entry it
\* is meant for (none fails, none removes another entry), and the remaining
\* entries keep their content and order.
C15_ResetExact ==
    \A k \in 1..Len(tasks) :
        ResetOfUser(tasks[k])
        => /\ ~(tasks[k].pc = "rejected" /\ tasks[k].error = "PatchError")
           /\ tasks[k].pc \in {"write", "resolved"}
              => After(tasks[k])
                   = NotNegating(Without(Before(tasks[k]), MatchIndex(tasks[k])),
                                 tasks[k].item.command)
           /\ tasks[k].pc = "resolved" => store = tasks[k].text

\* a reset on two adjacent negation entries followed by an entry of another
\* command has persisted that entry alone
C15_Witness ==
    \E k \in 1..Len(tasks) :
        /\ ResetOfUser(tasks[k]) /\ tasks[k].pc = "resolved"
        /\ Before(tasks[k]) = <<E2, E2, Obj("k1", "d", Undefined)>>
        /\ Entries(store) = <<Obj("k1", "d", Undefined)>>

\* C16: a reset of a default item adds no entry and deletes none: the entries
\* of the text it persists are the entries of the text it read, also when that
\* text holds entries or negation entries for the item's command, and a stored
\* array is persisted as it was read.
C16_ResetDefaultKeeps ==
    \A k \in 1..Len(tasks) :
        (/\ tasks[k].op = "reset" /\ tasks[k].item.isDefault
         /\ tasks[k].pc \in {"write", "resolved"})
        => /\ After(tasks[k]) = Before(tasks[k])
           /\ IsArrayDoc(tasks[k].read) => tasks[k].text = tasks[k].read
           /\ tasks[k].pc = "resolved"
              => store = tasks[k].text /\ Entries(store) = Before(tasks[k])

\* a reset of a default item on an entry that matches it followed by a
\* negation entry of its command has persisted both
C16_Witness ==
    \E k \in 1..Len(tasks) :
        /\ tasks[k].op = "reset" /\ tasks[k].item.isDefault
        /\ tasks[k].pc = "resolved"
        /\ MatchIndex(tasks[k]) = 0
        /\ Before(tasks[k]) = <<Obj("k1", "c", Undefined), Obj("k1", "-c", Undefined)>>
        /\ Entries(store) = Before(tasks[k])

(***************************************************************************)
(* Properties of an edit in place without a when (SpecEdit)                *)
(***************************************************************************)

\* operation t is an edit with no new when whose item matches an entry of the
\* stored array it read
UpdateWithoutWhen(t) ==
    /\ t.op = "edit" /\ t.when = Undefined
    /\ t.created
    /\ IsArrayDoc(ReadContent(t.read))
    /\ ~FindThrows(t.item, Before(t))
    /\ MatchIndex(t) # -1

\* C17: an edit in place with no new when does not fail while patching; the
\* matched entry gets the new key and keeps its command; when it had no when
\* nothing else of it changes (the when sub-step applies no patch and inserts
\* no when), and when it had a when that property is removed.
C17_AbsentWhen ==
    \A k \in 1..Len(tasks) :
        UpdateWithoutWhen(tasks[k])
        => /\ ~(tasks[k].pc = "rejected" /\ tasks[k].error = "PatchError")
           /\ tasks[k].pc \in {"write", "resolved"}
              => LET old == Before(tasks[k])[MatchIndex(tasks[k]) + 1]
                     new == After(tasks[k])[MatchIndex(tasks[k]) + 1]
                 IN /\ new = Obj(tasks[k].key, old.command, Undefined)
                    /\ old.when = Undefined => new = [old EXCEPT !.key = tasks[k].key]
                    /\ old.when # Undefined
                       => new = [old EXCEPT !.key = tasks[k].key, !.when = Undefined]
           /\ tasks[k].pc = "resolved" => store = tasks[k].text

\* an edit with no new when of an entry that has no when has been persisted:
\* the entry has the new key and nothing was added to the text
C17_Witness ==
    \E k \in 1..Len(tasks) :
        /\ UpdateWithoutWhen(tasks[k]) /\ tasks[k].pc = "resolved"
        /\ ~tasks[k].item.isDefault
        /\ Before(tasks[k])[MatchIndex(tasks[k]) + 1] = Obj("k1", "c", Undefined)
        /\ Entries(store)[MatchIndex(tasks[k]) + 1] = Obj("k2", "c", Undefined)
        /\ Len(store) = Len(tasks[k].read)

(***************************************************************************)
(* Properties of the buffer and of the write (Spec, SpecEdit)              *)
(***************************************************************************)

\* C18: at most one buffer of the keybindings identity is live in any state
\* (so no live buffer exists when an operation creates its own), and the
\* buffer an operation created is released once the operation has settled,
\* whatever its outcome.
C18_OneLiveBuffer ==
    /\ Cardinality(models) <= 1
    /\ \A k \in 1..Len(tasks) : IsSettled(k) => k \notin models

\* operation t passed validation: resolveAndValidate resolved with the buffer
PassedValidation(t) ==
    \/ t.pc \in {"patch", "write", "resolved"}
    \/ t.pc = "rejected" /\ t.error \in {"PatchError", "WriteError"}

\* C19: a settled operation that passed validation has called write exactly
\* once, with its buffer's final text; one that failed to read or failed
\* validation has called it zero times.
C19_WriteOnce ==
    \A k \in 1..Len(tasks) :
        IsSettled(k)
        => IF PassedValidation(tasks[k])
           THEN /\ tasks[k].writes = 1
                /\ tasks[k].pc = "resolved" => store = tasks[k].text
           ELSE tasks[k].writes = 0

(***************************************************************************)
(* Properties of a repeated edit (SpecRepeat)                              *)
(***************************************************************************)

\* the request of operation t asks for a when equivalent to its item's
Equivalent(t) == SameWhen(t.when, t.item.when)

\* the same edit has run twice, the second time after the first had persisted
Repeated == Len(tasks) = 2 /\ tasks[2].pc = "resolved"

\* C20 as stated: the second run of an edit of a user-defined item leaves the
\* persisted entries unchanged when the new when is equivalent to the item's;
\* when it differs, the second run finds no matching entry and appends a
\* second entry for the command.
C20_Original ==
    Repeated
    => IF Equivalent(tasks[2])
       THEN Entries(store) = Entries(tasks[2].read)
       ELSE /\ MatchIndex(tasks[2]) = -1
            /\ Entries(store)
                 = Append(Entries(tasks[2].read),
                          Obj(tasks[2].key, tasks[2].item.command, tasks[2].when))

\* C20: the second run of an edit of a user-defined item leaves the persisted
\* entries unchanged when the new when is equivalent to the item's; when it
\* differs, the second run appends a second entry for the command if the
\* document first held at most one entry matching the item, and otherwise
\* updates the next matching entry in place and appends nothing.
C20_Repeat ==
    Repeated
    => IF Equivalent(tasks[2])
       THEN Entries(store) = Entries(tasks[2].read)
       ELSE IF Cardinality(MatchSet(Before(tasks[1]), tasks[1].item)) <= 1
       THEN /\ MatchIndex(tasks[2]) = -1
            /\ Entries(store)
                 = Append(Entries(tasks[2].read),
                          Obj(tasks[2].key, tasks[2].item.command, tasks[2].when))
       ELSE /\ MatchIndex(tasks[2]) # -1
            /\ Entries(store) = Overridden(tasks[2])
            /\ Len(Entries(store)) = Len(Entries(tasks[2].read))

\* an edit to a when written differently from the item's equivalent when
\* appended an entry, and its second run has left the persisted entries as
\* they were
C20_Witness ==
    /\ Repeated
    /\ tasks[1].item.when = "a && b" /\ tasks[1].when = "b && a"
    /\ MatchIndex(tasks[1]) = -1
    /\ Len(Entries(store)) = Len(Before(tasks[1])) + 1
    /\ Entries(store) = Entries(tasks[2].read)

====
